---- MODULE Spec2Model ----
(***************************************************************************)
(* Model of micro_diffusion/models/dit.py: construction, initialization    *)
(* and forward of DiTBlock and AttentionBlockPromptEmbedding, the dense    *)
(* FeedForwardNetwork, and the Expert-Choice routing of                    *)
(* FeedForwardECMoe.forward.                                               *)
(*                                                                         *)
(* Conventions:                                                            *)
(*  - a Python float multiplier is a pair <<p, q>> standing for p/q, and   *)
(*    int(n * m) of a non-negative product is (n * p) \div q;              *)
(*  - a standard deviation 0.02 / sqrt(D) is the record Std(D); the        *)
(*    hard-coded 0.02 is Std(1);                                           *)
(*  - tensors of the MoE layer carry one channel (C = H = 1): a token is   *)
(*    an integer, probabilities and GELU values are fixed-point with three *)
(*    decimals; the order torch.topk gives to equal values is an input of  *)
(*    the call (a priority over the token indices).                        *)
(***************************************************************************)
EXTENDS Integers, Sequences, FiniteSets

VARIABLES
    block,    \* the DiTBlock instance of this run
    prompt,   \* the AttentionBlockPromptEmbedding instance of this run
    initlog,  \* the initialization calls made so far, in call order
    fwd,      \* the last DiTBlock.forward call
    moe       \* the last FeedForwardECMoe.forward call

vars == <<block, prompt, initlog, fwd, moe>>

----------------------------------------------------------------------------
(* Bounds of the model *)

MaxNEmbd == 4
MaxHeadSize == 2
MaxBaseMult == 2
MaxBlocks == 3
MaxT == 2

(* float multipliers p/q offered to the constructors *)
QkvMults == {<<1, 2>>, <<1, 1>>, <<2, 2>>, <<3, 2>>}
MlpMults == {<<1, 1>>, <<3, 2>>, <<4, 1>>}
PooledWidths == {2}
ExpertCounts == {1, 2}
Capacities == {<<0, 1>>, <<1, 2>>, <<1, 1>>, <<3, 2>>, <<2, 1>>}

----------------------------------------------------------------------------
(* Helpers *)

\* int(n * m) for a float m = p/q >= 0 (truncation of a non-negative value)
IntMul(n, m) == (n * m[1]) \div m[2]

\* m == 1 for a float m = p/q
IsOne(m) == m[1] = m[2]

\* the standard deviation 0.02 / sqrt(D)
Std(D) == [coef |-> <<2, 100>>, D |-> D]

\* hidden_base_mult * ((n_hidden + hidden_base_mult - 1) // hidden_base_mult)
RoundUp(n_hidden, hidden_base_mult) ==
    hidden_base_mult * ((n_hidden + hidden_base_mult - 1) \div hidden_base_mult)

NoMlp == [kind |-> "none", raised |-> "none", n_hidden |-> 0, params |-> {}]

----------------------------------------------------------------------------
(* FeedForwardNetwork *)

\* FeedForwardNetwork.__init__: line 60 is overwritten by line 61
FeedForwardNetwork_init(n_embd, n_hidden, hidden_base_mult) ==
    LET H == RoundUp(n_hidden, hidden_base_mult)
    IN  [kind |-> "FeedForwardNetwork", raised |-> "none", n_hidden |-> H,
         params |-> {[name |-> "fc1", shape |-> <<n_embd, H>>],
                     [name |-> "fc2", shape |-> <<n_embd, H>>],
                     [name |-> "fc3", shape |-> <<H, n_embd>>]}]

\* FeedForwardNetwork.custom_init: fc1 from 0.02, then the loop over (fc2, fc3)
FeedForwardNetwork_custom_init(owner, init_std) ==
    << [target |-> owner, param |-> "fc1", std |-> Std(1)],
       [target |-> owner, param |-> "fc2", std |-> init_std],
       [target |-> owner, param |-> "fc3", std |-> init_std] >>

----------------------------------------------------------------------------
(* FeedForwardECMoe construction *)

\* whether FeedForwardECMoe.__init__ has run nn.Module.__init__ before its
\* first submodule assignment: lines 85-96 hold no super().__init__() call
FeedForwardECMoe_superInitCalled == FALSE

\* FeedForwardECMoe.__init__: plain attributes are set, then self.gate = nn.Linear
\* is refused by nn.Module.__setattr__ when Module.__init__ has not run
FeedForwardECMoe_init(num_experts, n_embd, n_hidden, hidden_base_mult) ==
    LET H == RoundUp(n_hidden, hidden_base_mult)
    IN  IF ~FeedForwardECMoe_superInitCalled
        THEN [kind |-> "FeedForwardECMoe", raised |-> "AttributeError",
              n_hidden |-> H, params |-> {}]
        ELSE [kind |-> "FeedForwardECMoe", raised |-> "none", n_hidden |-> H,
              params |-> {[name |-> "gate", shape |-> <<n_embd, num_experts>>],
                          [name |-> "w1", shape |-> <<num_experts, n_embd, n_hidden>>],
                          [name |-> "w2", shape |-> <<num_experts, n_hidden, n_embd>>]}]

\* FeedForwardECMoe.custom_init
FeedForwardECMoe_custom_init(owner, init_std) ==
    << [target |-> owner, param |-> "gate", std |-> Std(1)],
       [target |-> owner, param |-> "w1", std |-> Std(1)],
       [target |-> owner, param |-> "w2", std |-> init_std] >>

----------------------------------------------------------------------------
(* DiTBlock construction *)

\* the divisibility test with its operands swapped
HeadSizeDivides_swapped(n_embd, head_size) == head_size % n_embd = 0

\* the assert of DiTBlock.__init__ and AttentionBlockPromptEmbedding.__init__
HeadSizeDivides(n_embd, head_size) == n_embd % head_size = 0

\* qkv_n_hidden rounded down to a multiple of 2 * head_size
qkv_n_hidden_rounded_down(n_embd, head_size, qkv_n_hidden_mult) ==
    IF IsOne(qkv_n_hidden_mult)
    THEN n_embd
    ELSE 2 * head_size * (IntMul(n_embd, qkv_n_hidden_mult) \div (2 * head_size))

\* lines 198-203
qkv_n_hidden(n_embd, head_size, qkv_n_hidden_mult) ==
    IF IsOne(qkv_n_hidden_mult)
    THEN n_embd
    ELSE 2 * head_size *
         ((IntMul(n_embd, qkv_n_hidden_mult) + (2 * head_size) - 1) \div (2 * head_size))

\* line 213
cx_attn_n_hidden(n_embd, qkv, scale_cx_attn_n_hidden) ==
    IF scale_cx_attn_n_hidden THEN qkv ELSE n_embd

\* weight_init_std with the block index taken without the + 1
weight_init_std_index_from_one(depth_init, block_index, num_blocks) ==
    IF depth_init THEN Std(3 * block_index) ELSE Std(3 * num_blocks)

\* lines 234-237: weight_init_std = 0.02 / sqrt(D)
weight_init_std(depth_init, block_index, num_blocks) ==
    IF depth_init THEN Std(3 * (block_index + 1)) ELSE Std(3 * num_blocks)

\* lines 218-224
mlp_of(cfg) ==
    LET mlp_n_hidden == IntMul(cfg.n_embd, cfg.mlp_n_hidden_mult)
    IN  IF cfg.use_moe
        THEN FeedForwardECMoe_init(cfg.num_experts, cfg.n_embd, mlp_n_hidden,
                                   cfg.hidden_base_mult)
        ELSE FeedForwardNetwork_init(cfg.n_embd, mlp_n_hidden, cfg.hidden_base_mult)

NoCfg ==
    [n_embd |-> 0, head_size |-> 0, mlp_n_hidden_mult |-> <<0, 1>>,
     qkv_n_hidden_mult |-> <<0, 1>>, hidden_base_mult |-> 0,
     pooled_caption_n_embd |-> 0, depth_init |-> FALSE, block_index |-> 0,
     num_blocks |-> 0, scale_cx_attn_n_hidden |-> FALSE, use_moe |-> FALSE,
     num_experts |-> 0]

NoBlock ==
    [state |-> "absent", raised |-> "none", cfg |-> NoCfg, modules |-> <<>>,
     qkv_n_hidden |-> 0, attn_n_head |-> 0, cx_attn_n_hidden |-> 0,
     cx_attn_n_head |-> 0, mlp |-> NoMlp, weight_init_std |-> Std(0)]

BlockConfigs ==
    [n_embd : 1..MaxNEmbd, head_size : 1..MaxHeadSize,
     mlp_n_hidden_mult : MlpMults, qkv_n_hidden_mult : QkvMults,
     hidden_base_mult : 1..MaxBaseMult, pooled_caption_n_embd : PooledWidths,
     depth_init : BOOLEAN, block_index : 0..(MaxBlocks - 1),
     num_blocks : 1..MaxBlocks, scale_cx_attn_n_hidden : BOOLEAN,
     use_moe : BOOLEAN, num_experts : ExpertCounts]

\* DiTBlock.__init__, up to the statement that raises (if any)
DiTBlock_construct(cfg) ==
    IF ~HeadSizeDivides(cfg.n_embd, cfg.head_size)
    THEN [NoBlock EXCEPT !.state = "failed", !.raised = "AssertionError", !.cfg = cfg]
    ELSE
      LET qkv == qkv_n_hidden(cfg.n_embd, cfg.head_size, cfg.qkv_n_hidden_mult)
          cx  == cx_attn_n_hidden(cfg.n_embd, qkv, cfg.scale_cx_attn_n_hidden)
          mlp == mlp_of(cfg)
          made == [NoBlock EXCEPT !.cfg = cfg,
                     !.modules = <<"ln1", "attn", "ln2", "cx_attn", "ln3">>,
                     !.qkv_n_hidden = qkv, !.attn_n_head = qkv \div cfg.head_size,
                     !.cx_attn_n_hidden = cx, !.cx_attn_n_head = cx \div cfg.head_size]
      IN  IF mlp.raised # "none"
          THEN [made EXCEPT !.state = "failed", !.raised = mlp.raised]
          ELSE [made EXCEPT !.state = "constructed",
                   !.modules = made.modules \o <<"mlp", "AdaLN_modulation">>,
                   !.mlp = mlp,
                   !.weight_init_std =
                       weight_init_std(cfg.depth_init, cfg.block_index, cfg.num_blocks)]

NothingBuilt == block.state = "absent" /\ prompt.state = "absent" /\ ~moe.called

DiTBlock_init ==
    /\ NothingBuilt
    /\ \E cfg \in BlockConfigs :
         /\ cfg.block_index < cfg.num_blocks
         /\ block' = DiTBlock_construct(cfg)
    /\ UNCHANGED <<prompt, initlog, fwd, moe>>

\* DiTBlock.custom_init: the three norms are reset, then the three hooks get
\* self.weight_init_std; the mlp hook is the one of the variant built
DiTBlock_custom_init_calls(blk) ==
    << [target |-> "ln1", param |-> "reset_parameters", std |-> Std(0)],
       [target |-> "ln2", param |-> "reset_parameters", std |-> Std(0)],
       [target |-> "ln3", param |-> "reset_parameters", std |-> Std(0)],
       [target |-> "attn", param |-> "custom_init", std |-> blk.weight_init_std],
       [target |-> "cx_attn", param |-> "custom_init", std |-> blk.weight_init_std],
       [target |-> "mlp", param |-> "custom_init", std |-> blk.weight_init_std] >>
    \o (IF blk.mlp.kind = "FeedForwardECMoe"
        THEN FeedForwardECMoe_custom_init("mlp", blk.weight_init_std)
        ELSE FeedForwardNetwork_custom_init("mlp", blk.weight_init_std))

DiTBlock_custom_init ==
    /\ block.state = "constructed"
    /\ initlog = <<>>
    /\ initlog' = DiTBlock_custom_init_calls(block)
    /\ UNCHANGED <<block, prompt, fwd, moe>>

----------------------------------------------------------------------------
(* DiTBlock.forward *)

\* the torch.Tensor methods that forward's expressions may look up
TensorMethods == {"split", "unsqueeze", "dim", "permute", "float"}

\* lines 252-254: the branch run by each residual step and the method it
\* calls on its gate tensor (line 252 spells it "unqueeze")
ResidualSteps ==
    << [branch |-> "attn", gate |-> "gate_msa", gate_call |-> "unqueeze"],
       [branch |-> "cx_attn", gate |-> "none", gate_call |-> "none"],
       [branch |-> "mlp", gate |-> "gate_mlp", gate_call |-> "unsqueeze"] >>

\* a step raises AttributeError when its gate expression names no Tensor method;
\* the gate expression is evaluated before the branch is called
StepRaises(step) == step.gate # "none" /\ step.gate_call \notin TensorMethods

NoFwd == [called |-> FALSE, raised |-> "none", steps |-> 0,
          x_shape |-> <<>>, c_shape |-> <<>>, t_shape |-> <<>>, out_shape |-> <<>>]

\* DiTBlock.forward on x (B,T,C), c (B,T_c,C), t (B,C_pool)
DiTBlock_forward_run(x_shape, c_shape, t_shape) ==
    LET raising == {i \in 1..Len(ResidualSteps) : StepRaises(ResidualSteps[i])}
        call == [NoFwd EXCEPT !.called = TRUE, !.x_shape = x_shape,
                    !.c_shape = c_shape, !.t_shape = t_shape]
    IN  IF raising # {}
        THEN LET first == CHOOSE i \in raising : \A j \in raising : i <= j
             IN  [call EXCEPT !.raised = "AttributeError", !.steps = first - 1]
        ELSE [call EXCEPT !.steps = Len(ResidualSteps), !.out_shape = x_shape]

BatchSizes == {1, 2}
\* (B, T) of x and T_c of c offered to DiTBlock.forward
XShapes == {<<1, 2>>, <<2, 3>>}
CaptionLengths == {1, 4}

DiTBlock_forward ==
    /\ block.state = "constructed"
    /\ ~fwd.called
    /\ \E bt \in XShapes, T_c \in CaptionLengths :
         fwd' = DiTBlock_forward_run(<<bt[1], bt[2], block.cfg.n_embd>>,
                                     <<bt[1], T_c, block.cfg.n_embd>>,
                                     <<bt[1], block.cfg.pooled_caption_n_embd>>)
    /\ UNCHANGED <<block, prompt, initlog, moe>>

----------------------------------------------------------------------------
(* AttentionBlockPromptEmbedding *)

NoPrompt == [state |-> "absent", raised |-> "none", n_embd |-> 0, head_size |-> 0,
             n_head |-> 0, modules |-> <<>>, ffn |-> NoMlp]

\* AttentionBlockPromptEmbedding.__init__
AttentionBlockPromptEmbedding_construct(n_embd, head_size, mlp_n_hidden_mult, hidden_base_mult) ==
    IF ~HeadSizeDivides(n_embd, head_size)
    THEN [NoPrompt EXCEPT !.state = "failed", !.raised = "AssertionError",
             !.n_embd = n_embd, !.head_size = head_size]
    ELSE [NoPrompt EXCEPT !.state = "constructed", !.n_embd = n_embd,
             !.head_size = head_size, !.n_head = n_embd \div head_size,
             !.modules = <<"ln1", "attn", "ln2", "ffn">>,
             !.ffn = FeedForwardNetwork_init(n_embd, IntMul(n_embd, mlp_n_hidden_mult),
                                             hidden_base_mult)]

AttentionBlockPromptEmbedding_init ==
    /\ NothingBuilt
    /\ \E n_embd \in 1..MaxNEmbd, head_size \in 1..MaxHeadSize,
          mult \in MlpMults, hidden_base_mult \in 1..MaxBaseMult :
         prompt' = AttentionBlockPromptEmbedding_construct(n_embd, head_size, mult,
                                                           hidden_base_mult)
    /\ UNCHANGED <<block, initlog, fwd, moe>>

\* AttentionBlockPromptEmbedding.custom_init(init_std)
AttentionBlockPromptEmbedding_custom_init ==
    /\ prompt.state = "constructed"
    /\ initlog = <<>>
    /\ \E D \in {1, 3} :
         initlog' = << [target |-> "attn", param |-> "custom_init", std |-> Std(D)],
                       [target |-> "ffn", param |-> "custom_init", std |-> Std(D)] >>
                    \o FeedForwardNetwork_custom_init("ffn", Std(D))
    /\ UNCHANGED <<block, prompt, fwd, moe>>

----------------------------------------------------------------------------
(* FeedForwardECMoe.forward, as a function of the attributes it reads from  *)
(* self (num_experts, expert_capacity, gate, w1, w2) and of x. The          *)
(* capacity factor is an exact rational p/q: the rounding of the float      *)
(* product expert_capacity * T is not modelled.                             *)

\* values of the gate weight of one expert and of one token's channel
GateVals == {-1, 1}
XVals == {-1, 1}
\* <<w1[e], w2[e]>> of one expert: the ones of lines 99 and 103, or other values
\* as initialization and training leave them
ExpertWeights == {<<1, 1>>, <<-1, 2>>}

\* exp(s) in fixed point, three decimals
Exp1000(s) ==
    CASE s = -2 -> 135 [] s = -1 -> 368 [] s = 0 -> 1000
      [] s = 1 -> 2718 [] s = 2 -> 7389

\* nn.GELU()(z) in fixed point, three decimals
GELU1000(z) ==
    CASE z = -2 -> -46 [] z = -1 -> -159 [] z = 0 -> 0
      [] z = 1 -> 841 [] z = 2 -> 1955

RECURSIVE SumTo(_, _)
\* f[1] + ... + f[n]
SumTo(f, n) == IF n = 0 THEN 0 ELSE f[n] + SumTo(f, n - 1)

\* tokens_per_expert without the division by num_experts
tokens_per_expert_undivided(expert_capacity, T, num_experts) ==
    (expert_capacity[1] * T) \div expert_capacity[2]

\* tokens_per_expert rounded up instead of truncated
tokens_per_expert_ceil(expert_capacity, T, num_experts) ==
    (expert_capacity[1] * T + expert_capacity[2] * num_experts - 1)
        \div (expert_capacity[2] * num_experts)

\* line 111: int(self.expert_capacity * T / self.num_experts)
tokens_per_expert(expert_capacity, T, num_experts) ==
    (expert_capacity[1] * T) \div (expert_capacity[2] * num_experts)

\* lines 114-115: F.softmax(self.gate(x), dim=-1) for one token
softmax_gate(gate, xt, E) ==
    LET scores == [e \in 1..E |-> gate[e] * xt]
        denom == SumTo([e \in 1..E |-> Exp1000(scores[e])], E)
    IN  [e \in 1..E |-> (1000 * Exp1000(scores[e])) \div denom]

RECURSIVE topk(_, _, _, _)
\* torch.topk of one row: the k largest values' indices, largest first; among
\* equal values the order is the one the kernel happens to produce (prio)
topk(row, remaining, k, prio) ==
    IF k = 0 THEN <<>>
    ELSE LET best == CHOOSE t \in remaining : \A u \in remaining \ {t} :
                        \/ row[t] > row[u]
                        \/ row[t] = row[u] /\ prio[t] < prio[u]
         IN  <<best>> \o topk(row, remaining \ {best}, k - 1, prio)

\* one_hot with the class index off by one (wrapping)
one_hot_shifted(idx, T) == [t \in 1..T |-> IF (idx % T) + 1 = t THEN 1 ELSE 0]

\* F.one_hot(idx, num_classes=T) for one slot
one_hot(idx, T) == [t \in 1..T |-> IF idx = t THEN 1 ELSE 0]

NoLayer == [num_experts |-> 0, expert_capacity |-> <<0, 1>>,
            gate |-> <<>>, w1 |-> <<>>, w2 |-> <<>>]

NoMoe == [called |-> FALSE, raised |-> "none", self |-> NoLayer, x |-> <<>>,
          B |-> 0, T |-> 0, tokens_per_expert |-> 0, probs |-> <<>>,
          expert_specific_tokens |-> <<>>, expert_specific_token_probs |-> <<>>,
          out |-> <<>>]

\* FeedForwardECMoe.forward(self, x) for x of x_dim axes, after line 107
FeedForwardECMoe_forward_run(self, x_dim, B, T, x, prio) ==
    LET E == self.num_experts
        call == [NoMoe EXCEPT !.called = TRUE, !.self = self, !.x = x,
                    !.B = B, !.T = T]
        L == tokens_per_expert(self.expert_capacity, T, E)
        probs == [b \in 1..B |-> [t \in 1..T |-> softmax_gate(self.gate, x[b][t], E)]]
        \* line 117: permute to (B, E, T)
        looking == [b \in 1..B |-> [e \in 1..E |-> [t \in 1..T |-> probs[b][t][e]]]]
        \* line 121
        tokens == [b \in 1..B |-> [e \in 1..E |-> topk(looking[b][e], 1..T, L, prio)]]
        token_probs == [b \in 1..B |-> [e \in 1..E |->
                          [l \in 1..L |-> looking[b][e][tokens[b][e][l]]]]]
        \* line 125
        extract == [b \in 1..B |-> [e \in 1..E |->
                      [l \in 1..L |-> one_hot(tokens[b][e][l], T)]]]
        \* line 128
        xin == [b \in 1..B |-> [e \in 1..E |-> [l \in 1..L |->
                  SumTo([t \in 1..T |-> extract[b][e][l][t] * x[b][t]], T)]]]
        \* lines 131-136
        activation == [b \in 1..B |-> [e \in 1..E |-> [l \in 1..L |->
                         (GELU1000(xin[b][e][l] * self.w1[e]) * self.w2[e])
                         * token_probs[b][e][l]]]]
        \* line 139
        out == [b \in 1..B |-> [t \in 1..T |->
                  SumTo([e \in 1..E |->
                           SumTo([l \in 1..L |->
                                    activation[b][e][l] * extract[b][e][l][t]], L)],
                        E)]]
    IN  IF x_dim # 3
        THEN [NoMoe EXCEPT !.called = TRUE, !.raised = "AssertionError", !.self = self]
        ELSE IF L > T
        THEN [call EXCEPT !.raised = "RuntimeError", !.tokens_per_expert = L]
        ELSE [call EXCEPT !.tokens_per_expert = L, !.probs = probs,
                 !.expert_specific_tokens = tokens,
                 !.expert_specific_token_probs = token_probs, !.out = out]

Layers ==
    UNION {{[num_experts |-> E, expert_capacity |-> c, gate |-> g,
             w1 |-> [e \in 1..E |-> w[e][1]], w2 |-> [e \in 1..E |-> w[e][2]]] :
               c \in Capacities, g \in [1..E -> GateVals],
               w \in [1..E -> ExpertWeights]} : E \in ExpertCounts}

Priorities(T) == {p \in [1..T -> 1..T] : \A i, j \in 1..T : p[i] = p[j] => i = j}

FeedForwardECMoe_forward ==
    /\ NothingBuilt
    /\ \E self \in Layers :
         \* an input of two axes, refused by the assert of line 107
         \/ moe' = FeedForwardECMoe_forward_run(self, 2, 0, 0, <<>>, <<>>)
         \* an input of shape (B, T, 1)
         \/ \E B \in BatchSizes, T \in 1..MaxT :
              \E x \in [1..B -> [1..T -> XVals]], prio \in Priorities(T) :
                moe' = FeedForwardECMoe_forward_run(self, 3, B, T, x, prio)
    /\ UNCHANGED <<block, prompt, initlog, fwd>>

----------------------------------------------------------------------------

Init ==
    /\ block = NoBlock
    /\ prompt = NoPrompt
    /\ initlog = <<>>
    /\ fwd = NoFwd
    /\ moe = NoMoe

Next ==
    \/ DiTBlock_init
    \/ DiTBlock_custom_init
    \/ DiTBlock_forward
    \/ AttentionBlockPromptEmbedding_init
    \/ AttentionBlockPromptEmbedding_custom_init

Spec == Init /\ [][Next]_vars

NextMoe == FeedForwardECMoe_forward

SpecMoe == Init /\ [][NextMoe]_vars

----------------------------------------------------------------------------
(* Properties of FeedForwardECMoe.forward, checked under SpecMoe *)

\* the call got past the rank assertion of line 107
Rank3Call == moe.called /\ moe.raised # "AssertionError"

\* floor(capacity_factor * T / E) of the call, from its arguments
FloorCapacity ==
    (moe.self.expert_capacity[1] * moe.T)
        \div (moe.self.expert_capacity[2] * moe.self.num_experts)

\* the token indices expert e holds for batch element b
Selected(b, e) ==
    {moe.expert_specific_tokens[b][e][l] :
        l \in 1..Len(moe.expert_specific_tokens[b][e])}

\* every expert of every batch element holds exactly n distinct tokens of 1..T
EveryExpertSelects(n) ==
    /\ Len(moe.expert_specific_tokens) = moe.B
    /\ \A b \in 1..moe.B :
         /\ Len(moe.expert_specific_tokens[b]) = moe.self.num_experts
         /\ \A e \in 1..moe.self.num_experts :
              /\ Len(moe.expert_specific_tokens[b][e]) = n
              /\ Cardinality(Selected(b, e)) = n
              /\ Selected(b, e) \subseteq 1..moe.T

\* C1 as stated: for every E >= 1, T >= 1 and capacity factor >= 0 the call
\* succeeds and every expert of every batch element selects exactly
\* floor(capacity_factor * T / E) distinct tokens.
C1_AlwaysSelectsFloor ==
    Rank3Call => moe.raised = "none" /\ EveryExpertSelects(FloorCapacity)

\* C1 amended: when floor(capacity_factor * T / E) <= T the call succeeds and
\* every expert of every batch element selects exactly that many distinct
\* tokens of 0..T-1; when it exceeds T, torch.topk raises and nothing is selected.
C1_SelectsFloorWhenItFits ==
    Rank3Call =>
        IF FloorCapacity <= moe.T
        THEN moe.raised = "none" /\ EveryExpertSelects(FloorCapacity)
        ELSE moe.raised = "RuntimeError" /\ moe.expert_specific_tokens = <<>>

\* C1 witness: two experts and two batch elements, each expert holding some
\* but not all of the tokens
C1_Witness ==
    /\ Rank3Call /\ moe.raised = "none"
    /\ moe.B = 2 /\ moe.self.num_experts = 2
    /\ 0 < FloorCapacity /\ FloorCapacity < moe.T
    /\ EveryExpertSelects(FloorCapacity)

\* C2 as stated: the capacity computed at line 111 never exceeds T.
C2_CapacityNeverExceedsT == Rank3Call => moe.tokens_per_expert <= moe.T

\* expert_capacity <= num_experts, for expert_capacity = p/q
CapacityAtMostExperts ==
    moe.self.expert_capacity[1] <= moe.self.expert_capacity[2] * moe.self.num_experts

\* C2 amended: the capacity computed at line 111 is at most T whenever
\* expert_capacity <= num_experts, and the top-L selection then succeeds; it
\* exceeds T only when expert_capacity > num_experts, and torch.topk then raises.
C2_CapacityBoundedByExperts ==
    Rank3Call =>
        /\ CapacityAtMostExperts => moe.tokens_per_expert <= moe.T /\ moe.raised = "none"
        /\ moe.tokens_per_expert > moe.T =>
               ~CapacityAtMostExperts /\ moe.raised = "RuntimeError"

\* C2 witness: expert_capacity = num_experts = 2, every expert takes all T tokens
C2_Witness ==
    /\ Rank3Call /\ moe.raised = "none"
    /\ moe.self.num_experts = 2 /\ moe.self.expert_capacity = <<2, 1>>
    /\ moe.T = 2 /\ moe.tokens_per_expert = moe.T

\* Expert_e applied to one token: w2[e] * GELU(w1[e] * v)
ExpertOut(e, v) == moe.self.w2[e] * GELU1000(moe.self.w1[e] * v)

RECURSIVE SumOver(_, _, _)
\* the sum over the experts of S of prob[b,t,e] * Expert_e(x[b,t])
SumOver(S, b, t) ==
    IF S = {} THEN 0
    ELSE LET e == CHOOSE e \in S : TRUE
         IN  moe.probs[b][t][e] * ExpertOut(e, moe.x[b][t]) + SumOver(S \ {e}, b, t)

\* C3: the output at (b, t) is the sum, over the experts whose top-L selection
\* holds t, of prob[b,t,e] * Expert_e(x[b,t]); each selection is a top-L set of
\* the expert's probabilities; a token no expert holds gets zero, and with
\* L = 0 the output is the all-zero (B, T) tensor.
C3_OutputIsSumOfSelectingExperts ==
    Rank3Call /\ moe.raised = "none" =>
        /\ Len(moe.out) = moe.B
        /\ \A b \in 1..moe.B :
             /\ Len(moe.out[b]) = moe.T
             /\ \A e \in 1..moe.self.num_experts :
                  \A t \in Selected(b, e), u \in (1..moe.T) \ Selected(b, e) :
                     moe.probs[b][t][e] >= moe.probs[b][u][e]
             /\ \A t \in 1..moe.T :
                  LET S == {e \in 1..moe.self.num_experts : t \in Selected(b, e)}
                  IN  /\ moe.out[b][t] = SumOver(S, b, t)
                      /\ S = {} => moe.out[b][t] = 0
        /\ moe.tokens_per_expert = 0 =>
               \A b \in 1..moe.B : \A t \in 1..moe.T : moe.out[b][t] = 0

\* C3 witness: one token held by both experts with a non-zero sum, another
\* token of the same batch element held by none
C3_Witness ==
    /\ Rank3Call /\ moe.raised = "none" /\ moe.self.num_experts = 2
    /\ \E b \in 1..moe.B : \E t, u \in 1..moe.T :
         /\ t \in Selected(b, 1) /\ t \in Selected(b, 2)
         /\ u \notin Selected(b, 1) /\ u \notin Selected(b, 2)
         /\ moe.out[b][t] # 0 /\ moe.out[b][u] = 0
         /\ moe.out[b][t] = SumOver({1, 2}, b, t)

----------------------------------------------------------------------------
(* Properties of construction, initialization and DiTBlock.forward,       *)
(* checked under Spec                                                      *)

\* DiTBlock.__init__ ran and got past the divisibility assertion
BlockPastAssert ==
    block.state # "absent" /\ block.cfg.n_embd % block.cfg.head_size = 0

\* C4: every DiTBlock.forward call on a constructed block completes its three
\* residual steps without error and returns a tensor of the shape of x.
C4_ForwardReturnsInputShape ==
    fwd.called =>
        fwd.raised = "none" /\ fwd.steps = 3 /\ fwd.out_shape = fwd.x_shape

\* C5: with n_embd divisible by head_size, construction completes with exactly
\* one feed-forward variant as mlp: FeedForwardECMoe with gate, w1 and w2 when
\* use_moe is true, FeedForwardNetwork otherwise.
C5_ExactlyOneVariantBuilt ==
    BlockPastAssert =>
        /\ block.state = "constructed"
        /\ Len(SelectSeq(block.modules, LAMBDA m : m = "mlp")) = 1
        /\ IF block.cfg.use_moe
           THEN /\ block.mlp.kind = "FeedForwardECMoe"
                /\ {p.name : p \in block.mlp.params} = {"gate", "w1", "w2"}
           ELSE block.mlp.kind = "FeedForwardNetwork"

\* the hidden width the claim asks of the feed-forward weights
RequestedHidden == IntMul(block.cfg.n_embd, block.cfg.mlp_n_hidden_mult)

\* C6: the hidden dimension carried by the feed-forward weights (fc1, fc2, fc3
\* of FeedForwardNetwork; w1 and w2 of FeedForwardECMoe) is a multiple of
\* hidden_base_mult, at least n_hidden and less than n_hidden + hidden_base_mult.
C6_WeightsCarryRoundedHidden ==
    BlockPastAssert =>
        LET hbm == block.cfg.hidden_base_mult
            hidden(p) == CASE p.name \in {"fc1", "fc2"} -> p.shape[2]
                           [] p.name = "fc3" -> p.shape[1]
                           [] p.name = "w1" -> p.shape[3]
                           [] p.name = "w2" -> p.shape[2]
                           [] OTHER -> block.mlp.n_hidden
        IN  /\ block.mlp.params # {}
            /\ \A p \in block.mlp.params :
                 /\ hidden(p) % hbm = 0
                 /\ hidden(p) >= RequestedHidden
                 /\ hidden(p) < RequestedHidden + hbm

\* the D of 0.02 / sqrt(D) that the claim gives for a block
ClaimedD(depth_init, block_index, num_blocks) ==
    IF depth_init THEN 3 * (block_index + 1) ELSE 3 * num_blocks

\* C7: weight_init_std is 0.02 / sqrt(D), D = 3 * (block_index + 1) with
\* depth_init and 3 * num_blocks without; with depth_init it strictly decreases
\* as block_index grows (D = 3 at index 0), without it is the same for every
\* index; custom_init resets ln1, ln2, ln3 and then passes exactly this value to
\* the self-attention, cross-attention and feed-forward hooks.
C7_WeightInitStd ==
    block.state = "constructed" =>
        LET c == block.cfg
            D == ClaimedD(c.depth_init, c.block_index, c.num_blocks)
        IN  /\ block.weight_init_std = [coef |-> <<2, 100>>, D |-> D]
            /\ c.depth_init /\ c.block_index = 0 => block.weight_init_std.D = 3
            /\ \A j \in 0..MaxBlocks :
                 LET other == weight_init_std(c.depth_init, j, c.num_blocks)
                 IN  IF c.depth_init
                     THEN /\ j > c.block_index => other.D > block.weight_init_std.D
                          /\ j < c.block_index => other.D < block.weight_init_std.D
                     ELSE other = block.weight_init_std
            /\ initlog # <<>> =>
                 /\ Len(initlog) >= 6
                 /\ \A i \in 1..3 : initlog[i].param = "reset_parameters"
                 /\ <<initlog[1].target, initlog[2].target, initlog[3].target>>
                        = <<"ln1", "ln2", "ln3">>
                 /\ <<initlog[4].target, initlog[5].target, initlog[6].target>>
                        = <<"attn", "cx_attn", "mlp">>
                 /\ \A i \in 4..6 : /\ initlog[i].param = "custom_init"
                                    /\ initlog[i].std = block.weight_init_std

\* C7 witness: a depth-initialized block past index 0 whose custom_init has run
C7_Witness ==
    /\ block.state = "constructed" /\ block.cfg.depth_init
    /\ block.cfg.block_index = 1 /\ block.cfg.num_blocks = 3
    /\ block.weight_init_std.D = 6
    /\ Len(initlog) >= 6 /\ initlog[6].std.D = 6

\* C8: construction of a DiTBlock or an AttentionBlockPromptEmbedding with
\* n_embd not divisible by head_size fails with a reported error before any
\* normalization, attention or feed-forward submodule exists; with a divisible
\* pair it does not fail on this check.
C8_IndivisibleWidthFailsFirst ==
    /\ block.state # "absent" =>
         IF block.cfg.n_embd % block.cfg.head_size # 0
         THEN /\ block.state = "failed" /\ block.raised = "AssertionError"
              /\ block.modules = <<>> /\ block.mlp.kind = "none"
         ELSE block.raised # "AssertionError" /\ block.modules # <<>>
    /\ prompt.state # "absent" =>
         IF prompt.n_embd % prompt.head_size # 0
         THEN /\ prompt.state = "failed" /\ prompt.raised = "AssertionError"
              /\ prompt.modules = <<>> /\ prompt.ffn.kind = "none"
         ELSE prompt.state = "constructed" /\ prompt.raised = "none"

\* C8 witness: a DiTBlock refused for n_embd = 3, head_size = 2
C8_Witness ==
    /\ block.state = "failed" /\ block.raised = "AssertionError"
    /\ block.cfg.n_embd = 3 /\ block.cfg.head_size = 2
    /\ block.modules = <<>>

\* C9: FeedForwardNetwork.custom_init draws fc1 and fc2 from the fixed 0.02 and
\* only fc3 from init_std.
C9_OnlyFc3FromInitStd ==
    \A i \in 1..Len(initlog) :
        /\ initlog[i].param \in {"fc1", "fc2"} => initlog[i].std = Std(1)
        /\ initlog[i].param = "fc3" =>
               \E j \in 1..(i - 1) : /\ initlog[j].target = initlog[i].target
                                     /\ initlog[j].param = "custom_init"
                                     /\ initlog[j].std = initlog[i].std

\* what the claim and its amendment say of the cross-attention width
CxWidthAsClaimed ==
    block.cx_attn_n_hidden =
        IF block.cfg.scale_cx_attn_n_hidden THEN block.qkv_n_hidden ELSE block.cfg.n_embd

\* C10 as stated: for every qkv_n_hidden_mult > 0, 1 included, the
\* self-attention hidden width is a multiple of 2 * head_size and at least
\* int(qkv_n_hidden_mult * n_embd); the cross-attention width is that width or
\* n_embd by the flag.
C10_AlwaysMultipleOfTwoHeads ==
    BlockPastAssert =>
        /\ block.qkv_n_hidden % (2 * block.cfg.head_size) = 0
        /\ block.qkv_n_hidden >= IntMul(block.cfg.n_embd, block.cfg.qkv_n_hidden_mult)
        /\ CxWidthAsClaimed

\* C10 amended: for qkv_n_hidden_mult other than 1 the self-attention hidden
\* width is a multiple of 2 * head_size and at least int(qkv_n_hidden_mult *
\* n_embd); for qkv_n_hidden_mult = 1 it is n_embd itself, a multiple of
\* head_size; the cross-attention width is that width or n_embd by the flag.
C10_MultipleOfTwoHeadsUnlessOne ==
    BlockPastAssert =>
        /\ IF block.cfg.qkv_n_hidden_mult[1] = block.cfg.qkv_n_hidden_mult[2]
           THEN /\ block.qkv_n_hidden = block.cfg.n_embd
                /\ block.qkv_n_hidden % block.cfg.head_size = 0
           ELSE /\ block.qkv_n_hidden % (2 * block.cfg.head_size) = 0
                /\ block.qkv_n_hidden
                       >= IntMul(block.cfg.n_embd, block.cfg.qkv_n_hidden_mult)
        /\ CxWidthAsClaimed

\* C10 witness: a block built with qkv_n_hidden_mult = 1, n_embd = 3, head_size = 1,
\* whose width 3 is no multiple of 2, and whose cross-attention follows it
C10_Witness ==
    /\ block.state = "constructed"
    /\ block.cfg.qkv_n_hidden_mult = <<1, 1>>
    /\ block.cfg.n_embd = 3 /\ block.cfg.head_size = 1
    /\ block.qkv_n_hidden = 3
    /\ block.cfg.scale_cx_attn_n_hidden /\ block.cx_attn_n_hidden = 3

====
